---- MODULE Spec2Model ----
(***************************************************************************)
(* Ledger & recurrence engine of PresupuestoPersonal.                      *)
(*                                                                         *)
(* The state is the document store (accounts, transactions) as the         *)
(* mongoose models and the express controllers read and write it.  Every   *)
(* controller is one action under Spec, where requests run one after the   *)
(* other; SpecApi adds direct calls of the Transaction instance methods,   *)
(* and SpecConc runs applyToAccount calls step by step, one step per       *)
(* await, so that calls of different requests interleave.                  *)
(***************************************************************************)
EXTENDS Integers, Sequences, FiniteSets, TLC

\* ---------------------------------------------------------------- bounds
\* Most transaction documents the store holds.
MaxTx == 2
\* Longest `transactions` array of one bulk request.
MaxBulk == 2
\* SpecApi: most direct applyToAccount calls on one stored transaction.
MaxApply == 2
\* SpecConc: applyToAccount calls in progress at the same time.
NumCalls == 2
\* SpecRecur: largest interval of a call of calculateNextOccurrence.
MaxInterval == 2
\* SpecForecast: recurring transactions stored, and largest `months` of a request.
NumTemplates == 2
MaxMonths == 2
\* SpecAcct: most account documents createAccount makes.
MaxNewAccounts == 1
\* SpecAcct: largest magnitude of a balance an 'add' request may produce.
MaxBalance == 3

\* ------------------------------------------------------------ vocabulary
None == "none"

Users == {"u1", "u2"}

\* The user whose requests create transactions in the runs explored; the
\* other one owns an account and sends delete requests.
Creators == {"u1"}

\* The accounts that exist.  Accounts are never hard-deleted (deleteAccount
\* only clears isActive), so the set of account documents does not shrink.
AccountIds == {"a1", "a2", "a3"}

\* A well-formed ObjectId that names no account document.
MissingAccountId == "ax"

AccountOwner(a) == IF a = "a3" THEN "u2" ELSE "u1"

AccountKind(a) == IF a = "a1" THEN "checking"
                  ELSE IF a = "a2" THEN "credit_card" ELSE "savings"

\* The balance each account was created with (createAccount stores it as
\* initialBalance and as the first currentBalance).
InitialBalance(a) == IF a = "a1" THEN 1 ELSE IF a = "a2" THEN -3 ELSE 0

\* The account types of ACCOUNT_TYPE_CONFIG that take part in the runs.
AccountType == {"checking", "savings", "investment", "credit_card", "auto_loan"}

\* ACCOUNT_TYPE_CONFIG[type].requiresCreditFields
requiresCreditFields(type) == type \in {"credit_card", "auto_loan", "personal_loan", "mortgage"}

\* ACCOUNT_TYPE_CONFIG[type].allowNegativeBalance
allowNegativeBalance(type) == type = "investment" \/ requiresCreditFields(type)

\* The creditLimit of the card a2.
CardLimit == 5

\* A creditFields value: `present` tells whether the document has the
\* subdocument, hasAvailableCredit whether it carries availableCredit.
CreditFields(present, creditLimit, hasAvailableCredit, availableCredit) ==
  [ present |-> present, creditLimit |-> creditLimit,
    hasAvailableCredit |-> hasAvailableCredit, availableCredit |-> availableCredit ]

NoCreditFields == CreditFields(FALSE, 0, FALSE, 0)

\* processCreditFields(type, creditFields, initialBalance) for creditFields
\* that give creditLimit (0 when they leave it out) and nothing else.
processCreditFields(type, creditFields, initialBalance) ==
  IF ~requiresCreditFields(type) \/ ~creditFields.present THEN NoCreditFields
  ELSE IF type = "credit_card"
    THEN CreditFields(TRUE, creditFields.creditLimit, TRUE,
                      creditFields.creditLimit + initialBalance)
    ELSE CreditFields(TRUE, creditFields.creditLimit, FALSE, 0)

\* validateCreditFields(type, creditFields): "ok" or the message returned.
validateCreditFields(type, creditFields) ==
  IF ~requiresCreditFields(type) THEN "ok"
  ELSE IF ~creditFields.present THEN "Credit fields are required for this account type"
  ELSE IF type = "credit_card" /\ creditFields.creditLimit <= 0
    THEN "Credit limit must be greater than 0 for credit cards"
  ELSE "ok"

\* new Account(accountData) once saved: the first currentBalance is the
\* initial balance.
NewAccount(userId, type, initialBalance, creditFields) ==
  [ userId |-> userId, type |-> type,
    initialBalance |-> initialBalance,
    currentBalance |-> initialBalance,
    creditFields |-> creditFields ]

\* The account documents that exist from the start, as createAccount made them.
InitialAccount(a) ==
  NewAccount(AccountOwner(a), AccountKind(a), InitialBalance(a),
             processCreditFields(AccountKind(a),
                                 CreditFields(TRUE, CardLimit, FALSE, 0),
                                 InitialBalance(a)))

TransactionType == {"income", "expense", "transfer", "payment", "adjustment"}

TransactionStatus == {"pending", "posted", "paid", "cancelled"}

Amounts == {-2, 0, 1}

\* Transaction ids a request can name: the stored ones and one that is not.
TxIds == 1..(MaxTx + 1)

Abs(x) == IF x < 0 THEN -x ELSE x

\* ------------------------------------------------------------------ dates
\* A Date is the number of its day, day 0 being Monday 1 January 2024; the
\* time of day, which no operation here changes, is left out.  Months are
\* numbered 0..11 and week days 0 (Sunday) .. 6, as Date numbers them.
\* The absent optional date (endDate, nextDate):
NoDate == -1

IsLeapYear(y) == (y % 4 = 0 /\ y % 100 # 0) \/ y % 400 = 0

DaysInYear(y) == IF IsLeapYear(y) THEN 366 ELSE 365

DaysInMonth(y, m) ==
  IF m = 1 THEN (IF IsLeapYear(y) THEN 29 ELSE 28)
  ELSE IF m \in {3, 5, 8, 10} THEN 30 ELSE 31

RECURSIVE DaysBeforeYear(_)
DaysBeforeYear(y) == IF y <= 2024 THEN 0 ELSE DaysBeforeYear(y - 1) + DaysInYear(y - 1)

RECURSIVE DaysBeforeMonth(_, _)
DaysBeforeMonth(y, m) == IF m <= 0 THEN 0 ELSE DaysBeforeMonth(y, m - 1) + DaysInMonth(y, m - 1)

\* new Date(y, m, d): a month past December carries into the year and a day
\* past the end of the month carries into the following months.
MakeDate(y, m, d) ==
  LET yy == y + (m \div 12)
      mm == m % 12
  IN DaysBeforeYear(yy) + DaysBeforeMonth(yy, mm) + (d - 1)

RECURSIVE YearFrom(_, _)
YearFrom(n, y) == IF n < DaysBeforeYear(y + 1) THEN y ELSE YearFrom(n, y + 1)

\* Date.getFullYear
getFullYear(n) == YearFrom(n, 2024)

RECURSIVE MonthFrom(_, _, _)
MonthFrom(n, y, m) ==
  IF n < DaysBeforeYear(y) + DaysBeforeMonth(y, m + 1) THEN m ELSE MonthFrom(n, y, m + 1)

\* Date.getMonth
getMonth(n) == MonthFrom(n, getFullYear(n), 0)

\* Date.getDate
getDate(n) == n - MakeDate(getFullYear(n), getMonth(n), 1) + 1

\* Date.getDay
getDay(n) == (n + 1) % 7

\* Date.setDate(d) on the date n
setDate(n, d) == MakeDate(getFullYear(n), getMonth(n), d)

\* Date.setMonth(m) on the date n
setMonth(n, m) == MakeDate(getFullYear(n), m, getDate(n))

\* Date.setFullYear(y) on the date n
setFullYear(n, y) == MakeDate(y, getMonth(n), getDate(n))

\* The day the requests are made on: 30 January 2024.
Today == MakeDate(2024, 0, 30)

\* The enum of recurringConfig.frequency in the transaction schema.
SchemaFrequencies == {"daily", "weekly", "biweekly", "monthly", "yearly"}

\* The frequencies calculateNextOccurrence handles.
HandledFrequencies == {"daily", "weekly", "biweekly", "monthly", "yearly"}

\* The weekly branch of calculateNextOccurrence once 7 * interval days are added.
WeeklyAdjust(fromDate, nextDate, dayOfWeek) ==
  LET daysToAdd == (dayOfWeek - getDay(nextDate) + 7) % 7 IN
  IF daysToAdd = 0 /\ nextDate <= fromDate
    THEN setDate(nextDate, getDate(nextDate) + 7)
    ELSE setDate(nextDate, getDate(nextDate) + daysToAdd)

\* The monthly branch of calculateNextOccurrence once the month is set.
MonthlyAdjust(nextDate, dayOfMonth) ==
  LET lastDay == getDate(MakeDate(getFullYear(nextDate), getMonth(nextDate) + 1, 0)) IN
  setDate(nextDate, IF dayOfMonth < lastDay THEN dayOfMonth ELSE lastDay)

\* Mutant: the daily case adds one day too few.
calculateNextOccurrence_ShortDay(fromDate, frequency, interval, dayOfMonth, dayOfWeek) ==
  CASE frequency = "daily" -> setDate(fromDate, getDate(fromDate) + interval - 1)
    [] frequency = "weekly" ->
         LET nextDate == setDate(fromDate, getDate(fromDate) + 7 * interval) IN
         IF dayOfWeek # NoDate THEN WeeklyAdjust(fromDate, nextDate, dayOfWeek) ELSE nextDate
    [] frequency = "biweekly" -> setDate(fromDate, getDate(fromDate) + 14 * interval)
    [] frequency = "monthly" ->
         LET nextDate == setMonth(fromDate, getMonth(fromDate) + interval) IN
         IF dayOfMonth # 0 THEN MonthlyAdjust(nextDate, dayOfMonth) ELSE nextDate
    [] frequency = "yearly" -> setFullYear(fromDate, getFullYear(fromDate) + interval)

\* calculateNextOccurrence(fromDate, frequency, interval, dayOfMonth, dayOfWeek)
\* for a frequency it handles; dayOfMonth = 0 and dayOfWeek = NoDate stand
\* for the arguments left out.
calculateNextOccurrence(fromDate, frequency, interval, dayOfMonth, dayOfWeek) ==
  CASE frequency = "daily" -> setDate(fromDate, getDate(fromDate) + interval)
    [] frequency = "weekly" ->
         LET nextDate == setDate(fromDate, getDate(fromDate) + 7 * interval) IN
         IF dayOfWeek # NoDate THEN WeeklyAdjust(fromDate, nextDate, dayOfWeek) ELSE nextDate
    [] frequency = "biweekly" -> setDate(fromDate, getDate(fromDate) + 14 * interval)
    [] frequency = "monthly" ->
         LET nextDate == setMonth(fromDate, getMonth(fromDate) + interval) IN
         IF dayOfMonth # 0 THEN MonthlyAdjust(nextDate, dayOfMonth) ELSE nextDate
    [] frequency = "yearly" -> setFullYear(fromDate, getFullYear(fromDate) + interval)

\* No call of the recurrence calculator in progress.
NoRecur == [pc |-> "none"]

\* No payment-calculation request in progress.
NoPayment == [pc |-> "none"]

VARIABLES
  accounts,      \* Account collection: id -> document
  transactions,  \* Transaction collection: sequence of documents, _id = index
  applyCount,    \* history: per transaction, how often applyToAccount returned normally
  reversed,      \* history: ids whose reverseTransaction returned normally
  last,          \* the response of the last request
  calls,         \* SpecConc: the applyToAccount calls in progress
  recur,         \* SpecRecur: the call of the recurrence calculator in progress
  payment        \* SpecCredit: the payment-calculation request in progress

vars == <<accounts, transactions, applyCount, reversed, last, calls, recur, payment>>

\* ------------------------------------------------------------- documents
\* new Transaction(data): the schema defaults fill what the data leaves out.
NewTransaction(data) ==
  [ userId              |-> data.userId,
    amount              |-> data.amount,
    type                |-> data.type,
    accountId           |-> data.accountId,
    transferToAccountId |-> data.transferToAccountId,
    status              |-> IF data.status = None THEN "posted" ELSE data.status,
    transactionDate     |-> data.transactionDate,
    isRecurring         |-> data.isRecurring,
    frequency           |-> data.frequency,
    interval            |-> data.interval,
    endDate             |-> data.endDate,
    nextDate            |-> data.nextDate,
    isActive            |-> TRUE ]

\* The fields every constructor call of the controllers gives, the others
\* left out: no status, not recurring, no recurringConfig (interval then
\* takes its default).
TransactionData(userId, amount, type, accountId, transferTo, date) ==
  [ userId              |-> userId,
    amount              |-> amount,
    type                |-> type,
    accountId           |-> accountId,
    transferToAccountId |-> transferTo,
    status              |-> None,
    transactionDate     |-> date,
    isRecurring         |-> FALSE,
    frequency           |-> None,
    interval            |-> 1,
    endDate             |-> NoDate,
    nextDate            |-> NoDate ]

\* Schema validation of save(): the required paths and the amount validator.
ValidateRequired(doc) ==
  /\ doc.userId # None
  /\ doc.amount # 0
  /\ doc.type \in TransactionType
  /\ doc.accountId # None
  /\ doc.status \in TransactionStatus
  /\ doc.frequency \in SchemaFrequencies \cup {None}
  /\ doc.interval >= 1

\* The pre('save') middleware.
PreSaveError(doc) ==
  IF doc.type = "transfer" /\ doc.transferToAccountId = None
    THEN "Transfer transactions require transferToAccountId"
  ELSE IF doc.isRecurring /\ doc.frequency = None
    THEN "Recurring transactions require frequency"
  ELSE "ok"

\* document.save(): "ok" or the error it rejects with.
SaveError(doc) ==
  IF ~ValidateRequired(doc) THEN "Transaction validation failed"
  ELSE PreSaveError(doc)

\* The database as one value, for the operators that thread it.
Db == [ accounts |-> accounts, transactions |-> transactions,
        applyCount |-> applyCount, reversed |-> reversed ]

Insert(db, doc) ==
  [db EXCEPT !.transactions = Append(@, doc), !.applyCount = Append(@, 0)]

\* ----------------------------------------------------------------- ledger
\* Account.findById(a) finds a document.
AccountExists(db, a) == a \in DOMAIN db.accounts

\* Account.findById(a): the document as loaded.
findById(db, a) == db.accounts[a]

\* account.updateBalance(amount) on a loaded document: the document it saves.
\* The availableCredit of creditFields brought up to date with the balance.
RecomputeAvailableCredit(account) ==
  IF account.creditFields.present
    THEN [account EXCEPT !.creditFields.hasAvailableCredit = TRUE,
                         !.creditFields.availableCredit =
                            account.creditFields.creditLimit + account.currentBalance]
    ELSE account

updateBalance(account, amount) ==
  RecomputeAvailableCredit([account EXCEPT !.currentBalance = @ + amount])

\* account.setBalance(amount) on a loaded document: the document it saves.
setBalance(account, amount) ==
  RecomputeAvailableCredit([account EXCEPT !.currentBalance = amount])

\* The save of a loaded account document: it writes the document's balance.
SaveAccount(db, a, account) ==
  [db EXCEPT !.accounts[a].currentBalance = account.currentBalance,
             !.accounts[a].creditFields.hasAvailableCredit =
                account.creditFields.hasAvailableCredit,
             !.accounts[a].creditFields.availableCredit =
                account.creditFields.availableCredit]

\* Mutants: the sign of the stored amount is trusted, or dropped.
TransferFromDelta_Signed(amount) == -amount

TransferToDelta_Signed(amount) == amount

NonTransferDelta_Abs(amount) == Abs(amount)

\* What applyToAccount passes to updateBalance.
TransferFromDelta(amount) == -Abs(amount)

TransferToDelta(amount) == Abs(amount)

NonTransferDelta(amount) == amount

\* Transaction.applyToAccount of the stored transaction id: the database
\* afterwards and the error thrown ("ok" when it returns normally).
applyToAccount(db, id) ==
  LET t == db.transactions[id] IN
  IF ~AccountExists(db, t.accountId)
    THEN [db |-> db, err |-> "Account not found"]
  ELSE
    LET account == findById(db, t.accountId)
        after ==
          IF t.type = "transfer"
            THEN LET debited == SaveAccount(db, t.accountId,
                                  updateBalance(account, TransferFromDelta(t.amount)))
                 IN
                 IF t.transferToAccountId # None /\ AccountExists(debited, t.transferToAccountId)
                   THEN LET targetAccount == findById(debited, t.transferToAccountId) IN
                        SaveAccount(debited, t.transferToAccountId,
                          updateBalance(targetAccount, TransferToDelta(t.amount)))
                   ELSE debited
            ELSE SaveAccount(db, t.accountId,
                   updateBalance(account, NonTransferDelta(t.amount)))
    IN [db |-> [after EXCEPT !.applyCount[id] = @ + 1], err |-> "ok"]

\* The document reverseTransaction builds for the stored transaction t.
ReversalData(t, now) ==
  TransactionData(None, -t.amount, t.type, t.accountId, t.transferToAccountId, now)

\* Transaction.reverseTransaction of the stored transaction id.
reverseTransaction(db, id, now) ==
  LET t   == db.transactions[id]
      rev == NewTransaction(ReversalData(t, now))
  IN
  IF SaveError(rev) # "ok" THEN [db |-> db, err |-> SaveError(rev)]
  ELSE
    LET saved   == Insert(db, rev)
        revId   == Len(saved.transactions)
        applied == applyToAccount(saved, revId)
    IN
    IF applied.err # "ok" THEN [db |-> saved, err |-> applied.err]
    ELSE [db |-> [applied.db EXCEPT !.transactions[id].status = "cancelled",
                                     !.reversed = @ \cup {id}],
          err |-> "ok"]

\* ------------------------------------------------------------- responses
\* What a request answers: the status code, the error message ("ok" without
\* one), the transaction it is about (0 without one) and, for a request that
\* loops over several, how many it created.
Resp(op, code, msg, tx, count) ==
  [op |-> op, code |-> code, msg |-> msg, tx |-> tx, count |-> count]

Commit(db, resp) ==
  /\ accounts' = db.accounts
  /\ transactions' = db.transactions
  /\ applyCount' = db.applyCount
  /\ reversed' = db.reversed
  /\ last' = resp
  /\ UNCHANGED <<calls, recur, payment>>

\* ------------------------------------------------- transactionController
\* Request bodies of POST /api/transactions.  description and paymentMethod
\* are always given; isRecurring is left out.
CreateBodies ==
  { b \in [ amount : Amounts,
            type : {"income", "expense", "transfer", "payment"},
            accountId : AccountIds \cup {MissingAccountId},
            transferToAccountId : AccountIds \cup {MissingAccountId, None} ] :
      b.type # "transfer" => b.transferToAccountId = None }

\* Account.findOne({ _id, userId })
OwnsAccount(db, u, a) == AccountExists(db, a) /\ db.accounts[a].userId = u

\* isRecurring: isRecurring || false and recurringConfig of the body of
\* createTransaction, for a body that carries them.
WithRecurringConfig(data, b) ==
  IF "isRecurring" \in DOMAIN b
    THEN [data EXCEPT !.isRecurring = b.isRecurring, !.frequency = b.frequency,
                      !.interval = b.interval, !.endDate = b.endDate,
                      !.nextDate = b.nextDate]
    ELSE data

\* createTransaction: the database afterwards and the response.
createTransactionResult(db, u, b, now) ==
  IF b.amount = 0 \/ b.accountId = None
    THEN [db |-> db, resp |-> Resp("createTransaction", 400, "required fields", 0, 0)]
  ELSE IF ~OwnsAccount(db, u, b.accountId)
    THEN [db |-> db, resp |-> Resp("createTransaction", 404, "Account not found or access denied", 0, 0)]
  ELSE IF b.type = "transfer" /\ b.transferToAccountId = None
    THEN [db |-> db, resp |-> Resp("createTransaction", 400, "Transfer transactions require transferToAccountId", 0, 0)]
  ELSE IF b.type = "transfer" /\ ~OwnsAccount(db, u, b.transferToAccountId)
    THEN [db |-> db, resp |-> Resp("createTransaction", 404, "Transfer target account not found or access denied", 0, 0)]
  ELSE IF b.type = "expense" /\ b.amount > 0
    THEN [db |-> db, resp |-> Resp("createTransaction", 400, "Expense transactions should have negative amounts", 0, 0)]
  ELSE IF b.type = "income" /\ b.amount < 0
    THEN [db |-> db, resp |-> Resp("createTransaction", 400, "Income transactions should have positive amounts", 0, 0)]
  ELSE
    LET doc == NewTransaction(WithRecurringConfig(
                   TransactionData(u, b.amount, b.type, b.accountId,
                                   b.transferToAccountId, now), b))
    IN
    IF SaveError(doc) # "ok"
      THEN [db |-> db, resp |-> Resp("createTransaction", 500, SaveError(doc), 0, 0)]
    ELSE
      LET saved   == Insert(db, doc)
          id      == Len(saved.transactions)
          applied == applyToAccount(saved, id)
      IN
      IF applied.err # "ok"
        THEN [db |-> saved, resp |-> Resp("createTransaction", 500, applied.err, id, 0)]
        ELSE [db |-> applied.db, resp |-> Resp("createTransaction", 201, "ok", id, 0)]

createTransaction(u, b, now) ==
  /\ Len(transactions) < MaxTx
  /\ LET r == createTransactionResult(Db, u, b, now) IN Commit(r.db, r.resp)

\* Transaction.findOne({ _id: id, userId })
FindOwnTransaction(db, u, id) ==
  id \in 1..Len(db.transactions) /\ db.transactions[id].userId = u

\* deleteTransaction: the database afterwards and the response.
deleteTransactionResult(db, u, id, now) ==
  IF ~FindOwnTransaction(db, u, id)
    THEN [db |-> db, resp |-> Resp("deleteTransaction", 404, "Transaction not found", 0, 0)]
  ELSE
    LET r == reverseTransaction(db, id, now) IN
    IF r.err # "ok"
      THEN [db |-> r.db, resp |-> Resp("deleteTransaction", 500, r.err, id, 0)]
      ELSE [db |-> r.db, resp |-> Resp("deleteTransaction", 200, "ok", id, 0)]

deleteTransaction(u, id, now) ==
  /\ id \in TxIds
  /\ LET r == deleteTransactionResult(Db, u, id, now) IN Commit(r.db, r.resp)

\* Elements of the `transactions` array of POST /api/transactions/bulk.  The
\* controller hands each to the model as it is: no account, owner, sign or
\* status check is made on it.
BulkItem(amount, type, accountId, transferTo, status) ==
  [ amount |-> amount, type |-> type, accountId |-> accountId,
    transferToAccountId |-> transferTo, status |-> status ]

BulkItems ==
  { BulkItem(-2, "adjustment", "a1", None, None),
    BulkItem(1, "adjustment", "a3", None, None),
    BulkItem(1, "adjustment", MissingAccountId, None, None),
    BulkItem(0, "adjustment", "a1", None, None),
    BulkItem(-2, "expense", "a2", None, "cancelled"),
    BulkItem(1, "transfer", "a1", MissingAccountId, None),
    BulkItem(-2, "transfer", "a2", "a1", "cancelled"),
    BulkItem(1, "transfer", "a1", None, None),
    BulkItem(1, "transfer", MissingAccountId, "a2", None) }

BulkRequests == UNION { [1..n -> BulkItems] : n \in 1..MaxBulk }

\* One pass of the loop of createBulkTransactions.
BulkStep(acc, u, item, now) ==
  LET doc == NewTransaction([TransactionData(u, item.amount, item.type, item.accountId,
                                             item.transferToAccountId, now)
                               EXCEPT !.status = item.status])
  IN
  IF SaveError(doc) # "ok" THEN [acc EXCEPT !.errors = @ + 1]
  ELSE
    LET saved   == Insert(acc.db, doc)
        applied == applyToAccount(saved, Len(saved.transactions))
    IN
    IF applied.err # "ok"
      THEN [acc EXCEPT !.db = saved, !.errors = @ + 1]
      ELSE [acc EXCEPT !.db = applied.db, !.created = @ + 1]

RECURSIVE BulkLoop(_, _, _, _, _)
BulkLoop(acc, u, items, i, now) ==
  IF i > Len(items) THEN acc
  ELSE BulkLoop(BulkStep(acc, u, items[i], now), u, items, i + 1, now)

\* createBulkTransactions for an array of 1 to 100 elements; the response
\* carries the number created.
createBulkTransactionsResult(db, u, items, now) ==
  LET acc == BulkLoop([db |-> db, created |-> 0, errors |-> 0], u, items, 1, now) IN
  [db |-> acc.db, resp |-> Resp("createBulkTransactions", 201, "ok", 0, acc.created)]

createBulkTransactions(u, items, now) ==
  /\ Len(transactions) + Len(items) <= MaxTx
  /\ LET r == createBulkTransactionsResult(Db, u, items, now) IN Commit(r.db, r.resp)

\* --------------------------------------------------- recurringController
\* Request bodies of POST /api/recurring/setup.  description and
\* paymentMethod are always given, categoryId never.
SetupBody(amount, type, accountId, frequency, interval, endDate, dayOfMonth, dayOfWeek) ==
  [ amount |-> amount, type |-> type, accountId |-> accountId,
    frequency |-> frequency, interval |-> interval, endDate |-> endDate,
    dayOfMonth |-> dayOfMonth, dayOfWeek |-> dayOfWeek ]

\* setupRecurringTransaction with start date `start`: the database
\* afterwards and the response.
setupRecurringTransactionResult(db, u, b, start) ==
  IF b.amount = 0 \/ b.frequency = None
    THEN [db |-> db, resp |-> Resp("setupRecurringTransaction", 400, "required fields", 0, 0)]
  ELSE IF ~OwnsAccount(db, u, b.accountId)
    THEN [db |-> db, resp |-> Resp("setupRecurringTransaction", 404, "Account not found", 0, 0)]
  ELSE IF b.frequency \notin HandledFrequencies
    THEN [db |-> db, resp |-> Resp("setupRecurringTransaction", 500, "Unsupported frequency", 0, 0)]
  ELSE
    LET nextDate == calculateNextOccurrence(start, b.frequency, b.interval,
                                            b.dayOfMonth, b.dayOfWeek)
        doc == NewTransaction([TransactionData(u, b.amount, b.type, b.accountId, None, start)
                                 EXCEPT !.isRecurring = TRUE,
                                        !.frequency = b.frequency,
                                        !.interval = b.interval,
                                        !.endDate = b.endDate,
                                        !.nextDate = nextDate])
    IN
    IF SaveError(doc) # "ok"
      THEN [db |-> db, resp |-> Resp("setupRecurringTransaction", 500, SaveError(doc), 0, 0)]
      ELSE [db |-> Insert(db, doc),
            resp |-> Resp("setupRecurringTransaction", 201, "ok", Len(db.transactions) + 1, 0)]

setupRecurringTransaction(u, b, start) ==
  /\ Len(transactions) < MaxTx
  /\ LET r == setupRecurringTransactionResult(Db, u, b, start) IN Commit(r.db, r.resp)

\* Mutant: the find does not ask for isActive.
IsDue_Inactive(t, u, date) ==
  /\ t.userId = u
  /\ t.isRecurring
  /\ t.nextDate # NoDate
  /\ t.nextDate <= date

\* The filter of getDueRecurringTransactions and processDueRecurringTransactions.
IsDue(t, u, date) ==
  /\ t.userId = u
  /\ t.isRecurring
  /\ t.isActive
  /\ t.nextDate # NoDate
  /\ t.nextDate <= date

DueIds(db, u, date) ==
  { i \in 1..Len(db.transactions) : IsDue(db.transactions[i], u, date) }

\* recurring.recurringConfig?.interval || 1
IntervalOrOne(interval) == IF interval = 0 THEN 1 ELSE interval

\* One pass of the loop of processDueRecurringTransactions, for the
\* recurring transaction id.
ProcessStep(acc, u, id, processDate) ==
  LET recurring == acc.db.transactions[id]
      doc == NewTransaction(TransactionData(u, recurring.amount, recurring.type,
                                            recurring.accountId, None, processDate))
  IN
  IF SaveError(doc) # "ok" THEN [acc EXCEPT !.errors = @ + 1]
  ELSE
    LET saved   == Insert(acc.db, doc)
        applied == applyToAccount(saved, Len(saved.transactions))
    IN
    IF applied.err # "ok" THEN [acc EXCEPT !.db = saved, !.errors = @ + 1]
    ELSE IF recurring.frequency \notin HandledFrequencies
      THEN [acc EXCEPT !.db = applied.db, !.errors = @ + 1]
    ELSE
      LET nextDate == calculateNextOccurrence(processDate, recurring.frequency,
                                              IntervalOrOne(recurring.interval), 0, NoDate)
          ended == recurring.endDate # NoDate /\ nextDate > recurring.endDate
      IN [acc EXCEPT !.db = [applied.db EXCEPT
                               !.transactions[id].nextDate = nextDate,
                               !.transactions[id].isActive = IF ended THEN FALSE ELSE @],
                     !.created = @ + 1]

\* The recurring transactions found are handled in _id order.
RECURSIVE ProcessLoop(_, _, _, _)
ProcessLoop(acc, u, ids, processDate) ==
  IF ids = {} THEN acc
  ELSE LET id == CHOOSE i \in ids : \A j \in ids : i <= j IN
       ProcessLoop(ProcessStep(acc, u, id, processDate), u, ids \ {id}, processDate)

\* processDueRecurringTransactions without transactionIds; the response
\* carries the number processed.
processDueRecurringTransactionsResult(db, u, processDate) ==
  LET acc == ProcessLoop([db |-> db, created |-> 0, errors |-> 0], u,
                         DueIds(db, u, processDate), processDate) IN
  [db |-> acc.db, resp |-> Resp("processDueRecurringTransactions", 200, "ok", 0, acc.created)]

processDueRecurringTransactions(u, processDate) ==
  /\ Len(transactions) + Cardinality(DueIds(Db, u, processDate)) <= MaxTx
  /\ LET r == processDueRecurringTransactionsResult(Db, u, processDate) IN
     Commit(r.db, r.resp)

\* The setup requests and process dates of the runs of Spec.
SetupBodies ==
  { SetupBody(-2, "expense", "a1", "daily", 1, NoDate, 0, NoDate),
    SetupBody(1, "income", "a2", "daily", 1, Today + 5, 0, NoDate),
    SetupBody(1, "transfer", "a1", "weekly", 1, NoDate, 0, 3),
    SetupBody(1, "income", "a3", "daily", 1, NoDate, 0, NoDate),
    SetupBody(1, "income", "a1", "quarterly", 1, NoDate, 0, NoDate) }

ProcessDates == {Today + 1, Today + 31}

\* ------------------------------------------------------- specification
Init ==
  /\ accounts = [a \in AccountIds |-> InitialAccount(a)]
  /\ transactions = <<>>
  /\ applyCount = <<>>
  /\ reversed = {}
  /\ last = Resp("none", 0, "none", 0, 0)
  /\ calls = <<>>
  /\ recur = NoRecur
  /\ payment = NoPayment

CreateTransaction == \E u \in Creators, b \in CreateBodies : createTransaction(u, b, Today)

DeleteTransaction == \E u \in Users, id \in TxIds : deleteTransaction(u, id, Today)

CreateBulkTransactions ==
  \E u \in Creators, items \in BulkRequests : createBulkTransactions(u, items, Today)

SetupRecurringTransaction ==
  \E u \in Creators, b \in SetupBodies : setupRecurringTransaction(u, b, Today)

ProcessDueRecurringTransactions ==
  \E u \in Creators, d \in ProcessDates : processDueRecurringTransactions(u, d)

Next ==
  \/ CreateTransaction
  \/ DeleteTransaction
  \/ CreateBulkTransactions
  \/ SetupRecurringTransaction
  \/ ProcessDueRecurringTransactions

Spec == Init /\ [][Next]_vars

\* ------------------------------------------------------ accountController
\* The ids the account documents made by createAccount get, in order.
FreshAccountIds == <<"a4", "a5">>

\* How many accounts createAccount has made.
CreatedAccounts(db) == Cardinality(DOMAIN db.accounts) - Cardinality(AccountIds)

\* Request bodies of POST /api/accounts.  name is always given and new to
\* the user; creditFields carry creditLimit only.
AccountBody(type, initialBalance, creditFields) ==
  [ type |-> type, initialBalance |-> initialBalance, creditFields |-> creditFields ]

AccountBodies ==
  { AccountBody("checking", -1, NoCreditFields),
    AccountBody("investment", -1, NoCreditFields),
    AccountBody("auto_loan", -1, CreditFields(TRUE, CardLimit, FALSE, 0)),
    AccountBody("credit_card", 0, CreditFields(TRUE, 0, FALSE, 0)),
    AccountBody("credit_card", -1, CreditFields(TRUE, CardLimit, FALSE, 0)) }

\* createAccount: the database afterwards and the response (tx is 0, the
\* message tells the outcome).
createAccountResult(db, u, b) ==
  IF b.type \notin AccountType
    THEN [db |-> db, resp |-> Resp("createAccount", 400, "Invalid account type", 0, 0)]
  ELSE IF ~allowNegativeBalance(b.type) /\ b.initialBalance < 0
    THEN [db |-> db,
          resp |-> Resp("createAccount", 400,
                        "This account type does not allow negative balances", 0, 0)]
  ELSE IF validateCreditFields(b.type, b.creditFields) # "ok"
    THEN [db |-> db,
          resp |-> Resp("createAccount", 400, validateCreditFields(b.type, b.creditFields), 0, 0)]
  ELSE
    LET id  == FreshAccountIds[CreatedAccounts(db) + 1]
        doc == NewAccount(u, b.type, b.initialBalance,
                          processCreditFields(b.type, b.creditFields, b.initialBalance))
    IN [db |-> [db EXCEPT !.accounts =
                  [a \in DOMAIN db.accounts \cup {id} |->
                     IF a = id THEN doc ELSE db.accounts[a]]],
        resp |-> Resp("createAccount", 201, "ok", 0, 0)]

createAccount(u, b) ==
  /\ CreatedAccounts(Db) < MaxNewAccounts
  /\ CreatedAccounts(Db) < Len(FreshAccountIds)
  /\ LET r == createAccountResult(Db, u, b) IN Commit(r.db, r.resp)

\* Request bodies of PUT /api/accounts/:id: `fields` names the keys the body
\* has, among currentBalance, initialBalance and creditFields.
AccountUpdate(fields, currentBalance, initialBalance, creditFields) ==
  [ fields |-> fields, currentBalance |-> currentBalance,
    initialBalance |-> initialBalance, creditFields |-> creditFields ]

AccountUpdates ==
  { AccountUpdate({"currentBalance"}, -1, 0, NoCreditFields),
    AccountUpdate({"creditFields"}, 0, 0, CreditFields(TRUE, CardLimit - 1, FALSE, 0)),
    AccountUpdate({"initialBalance", "creditFields"}, 0, 2,
                  CreditFields(TRUE, CardLimit - 1, FALSE, 0)),
    AccountUpdate({"creditFields"}, 0, 0, CreditFields(TRUE, 0, FALSE, 0)) }

\* updates.initialBalance || account.currentBalance
InitialOrCurrent(updates, account) ==
  IF "initialBalance" \in updates.fields /\ updates.initialBalance # 0
    THEN updates.initialBalance
    ELSE account.currentBalance

\* Account.findOneAndUpdate({ _id, userId }, updates): the document with the
\* fields of `updates` set; creditFields is the processed value, and a value
\* of undefined (an account type without credit fields) sets nothing.
ApplyAccountUpdate(account, updates, processed) ==
  [account EXCEPT
     !.currentBalance = IF "currentBalance" \in updates.fields
                          THEN updates.currentBalance ELSE @,
     !.initialBalance = IF "initialBalance" \in updates.fields
                          THEN updates.initialBalance ELSE @,
     !.creditFields   = IF "creditFields" \in updates.fields /\ processed.present
                          THEN processed ELSE @]

\* updateAccount: the database afterwards and the response.
updateAccountResult(db, u, id, updates) ==
  LET owned == OwnsAccount(db, u, id)
      given == "creditFields" \in updates.fields /\ updates.creditFields.present
      check == IF owned /\ given
                 THEN validateCreditFields(db.accounts[id].type, updates.creditFields)
                 ELSE "ok"
  IN
  IF check # "ok"
    THEN [db |-> db, resp |-> Resp("updateAccount", 400, check, 0, 0)]
  ELSE IF ~owned
    THEN [db |-> db, resp |-> Resp("updateAccount", 404, "Account not found", 0, 0)]
  ELSE
    LET account   == db.accounts[id]
        processed == IF given
                       THEN processCreditFields(account.type, updates.creditFields,
                                                InitialOrCurrent(updates, account))
                       ELSE NoCreditFields
    IN [db |-> [db EXCEPT !.accounts[id] = ApplyAccountUpdate(account, updates, processed)],
        resp |-> Resp("updateAccount", 200, "ok", 0, 0)]

updateAccount(u, id, updates) ==
  /\ id \in AccountIds
  /\ LET r == updateAccountResult(Db, u, id, updates) IN Commit(r.db, r.resp)

\* updateAccountBalance with a numeric amount: the database afterwards and
\* the response.
updateAccountBalanceResult(db, u, id, amount, operation) ==
  IF ~OwnsAccount(db, u, id)
    THEN [db |-> db, resp |-> Resp("updateAccountBalance", 404, "Account not found", 0, 0)]
  ELSE IF operation = "add"
    THEN [db |-> SaveAccount(db, id, updateBalance(findById(db, id), amount)),
          resp |-> Resp("updateAccountBalance", 200, "ok", 0, 0)]
  ELSE IF operation = "set"
    THEN [db |-> SaveAccount(db, id, setBalance(findById(db, id), amount)),
          resp |-> Resp("updateAccountBalance", 200, "ok", 0, 0)]
  ELSE [db |-> db, resp |-> Resp("updateAccountBalance", 400, "Invalid operation", 0, 0)]

updateAccountBalance(u, id, amount, operation) ==
  /\ id \in AccountIds
  /\ operation = "add" => Abs(accounts[id].currentBalance + amount) <= MaxBalance
  /\ LET r == updateAccountBalanceResult(Db, u, id, amount, operation) IN Commit(r.db, r.resp)

\* The requests of the runs of SpecAcct: accounts are made, edited and
\* adjusted by either user, and u1 records transactions on a1 and a2.
BalanceRequests == { <<2, "add">>, <<-1, "set">>, <<2, "replace">> }

AcctCreateBodies ==
  { b \in CreateBodies :
      \/ b.type = "expense" /\ b.amount = -2 /\ b.accountId = "a1"
      \/ b.type = "income" /\ b.amount = 1 /\ b.accountId = "a2" }

CreateAccount == \E u \in Creators, b \in AccountBodies : createAccount(u, b)

UpdateAccount ==
  \E u \in Users, id \in {"a1", "a2"}, updates \in AccountUpdates : updateAccount(u, id, updates)

UpdateAccountBalance ==
  \E u \in Users, id \in {"a1", "a2"}, r \in BalanceRequests :
    updateAccountBalance(u, id, r[1], r[2])

RecordTransaction ==
  \E u \in Creators, b \in AcctCreateBodies : createTransaction(u, b, Today)

NextAcct ==
  \/ CreateAccount
  \/ UpdateAccount
  \/ UpdateAccountBalance
  \/ RecordTransaction

SpecAcct == Init /\ [][NextAcct]_vars

\* ------------------------------------------- edits of stored transactions
\* Request bodies of PUT /api/transactions/:id and PUT /api/recurring/:id:
\* `fields` names the keys the body has.  A recurringConfig in the body gives
\* frequency, interval and endDate.
TransactionUpdate(fields, amount, type, accountId, transferTo, frequency, interval, endDate) ==
  [ fields |-> fields, amount |-> amount, type |-> type, accountId |-> accountId,
    transferToAccountId |-> transferTo, frequency |-> frequency,
    interval |-> interval, endDate |-> endDate ]

TransactionUpdates ==
  { TransactionUpdate({"amount"}, 1, None, None, None, None, 1, NoDate),
    TransactionUpdate({"amount"}, 0, None, None, None, None, 1, NoDate),
    TransactionUpdate({"type", "accountId"}, 0, "adjustment", "a2", None, None, 1, NoDate),
    TransactionUpdate({"transferToAccountId"}, 0, None, None, "a2", None, 1, NoDate),
    TransactionUpdate({"recurringConfig"}, 0, None, None, None, "weekly", 1, Today + 5),
    TransactionUpdate({"recurringConfig"}, 0, None, None, None, "quarterly", 1, NoDate) }

\* The update validators (runValidators: true) of the paths an update sets.
UpdateValidationError(updates) ==
  \/ "amount" \in updates.fields /\ updates.amount = 0
  \/ "type" \in updates.fields /\ updates.type \notin TransactionType
  \/ "recurringConfig" \in updates.fields
       /\ (updates.frequency \notin SchemaFrequencies \/ updates.interval < 1)

\* Transaction.findOneAndUpdate(filter, updates): the stored document with
\* the fields of `updates` set.
ApplyTransactionUpdate(t, updates, nextDate) ==
  [t EXCEPT
     !.amount = IF "amount" \in updates.fields THEN updates.amount ELSE @,
     !.type = IF "type" \in updates.fields THEN updates.type ELSE @,
     !.accountId = IF "accountId" \in updates.fields THEN updates.accountId ELSE @,
     !.transferToAccountId = IF "transferToAccountId" \in updates.fields
                               THEN updates.transferToAccountId ELSE @,
     !.frequency = IF "recurringConfig" \in updates.fields THEN updates.frequency ELSE @,
     !.interval = IF "recurringConfig" \in updates.fields THEN updates.interval ELSE @,
     !.endDate = IF "recurringConfig" \in updates.fields THEN updates.endDate ELSE @,
     !.nextDate = IF "recurringConfig" \in updates.fields THEN nextDate ELSE @]

\* updateTransaction: the database afterwards and the response.  accountId is
\* deleted from the body; a recurringConfig in it is stored as it comes, with
\* no nextDate.
updateTransactionResult(db, u, id, body) ==
  LET updates == [body EXCEPT !.fields = @ \ {"accountId"}] IN
  IF ~FindOwnTransaction(db, u, id)
    THEN [db |-> db, resp |-> Resp("updateTransaction", 404, "Transaction not found", 0, 0)]
  ELSE IF UpdateValidationError(updates)
    THEN [db |-> db, resp |-> Resp("updateTransaction", 500, "Validation failed", id, 0)]
  ELSE [db |-> [db EXCEPT !.transactions[id] = ApplyTransactionUpdate(@, updates, NoDate)],
        resp |-> Resp("updateTransaction", 200, "ok", id, 0)]

updateTransaction(u, id, body) ==
  /\ id \in TxIds
  /\ LET r == updateTransactionResult(Db, u, id, body) IN Commit(r.db, r.resp)

\* updateRecurringTransaction at time `now`: the database afterwards and the
\* response.
updateRecurringTransactionResult(db, u, id, updates, now) ==
  IF "recurringConfig" \in updates.fields /\ updates.frequency \notin HandledFrequencies
    THEN [db |-> db,
          resp |-> Resp("updateRecurringTransaction", 500, "Unsupported frequency", 0, 0)]
  ELSE IF ~(FindOwnTransaction(db, u, id) /\ db.transactions[id].isRecurring)
    THEN [db |-> db,
          resp |-> Resp("updateRecurringTransaction", 404, "Recurring transaction not found", 0, 0)]
  ELSE IF UpdateValidationError(updates)
    THEN [db |-> db, resp |-> Resp("updateRecurringTransaction", 500, "Validation failed", id, 0)]
  ELSE
    LET nextDate == IF "recurringConfig" \in updates.fields
                      THEN calculateNextOccurrence(now, updates.frequency,
                                                   IntervalOrOne(updates.interval), 0, NoDate)
                      ELSE NoDate
    IN [db |-> [db EXCEPT !.transactions[id] = ApplyTransactionUpdate(@, updates, nextDate)],
        resp |-> Resp("updateRecurringTransaction", 200, "ok", id, 0)]

updateRecurringTransaction(u, id, updates, now) ==
  /\ id \in TxIds
  /\ LET r == updateRecurringTransactionResult(Db, u, id, updates, now) IN Commit(r.db, r.resp)

\* The requests of the runs of SpecEdit: u1 records transactions and sets up
\* recurring ones, and either user sends edits.
EditCreateBodies ==
  { b \in CreateBodies :
      \/ b.type = "expense" /\ b.amount = -2 /\ b.accountId = "a1"
      \/ b.type = "transfer" /\ b.amount = 1 /\ b.accountId = "a2"
           /\ b.transferToAccountId = "a1" }

EditRecord == \E u \in Creators, b \in EditCreateBodies : createTransaction(u, b, Today)

UpdateTransaction ==
  \E u \in Users, id \in TxIds, body \in TransactionUpdates : updateTransaction(u, id, body)

UpdateRecurringTransaction ==
  \E u \in Users, id \in TxIds, updates \in TransactionUpdates :
    updateRecurringTransaction(u, id, updates, Today)

NextEdit ==
  \/ EditRecord
  \/ SetupRecurringTransaction
  \/ UpdateTransaction
  \/ UpdateRecurringTransaction

SpecEdit == Init /\ [][NextEdit]_vars

\* ------------------------------------------ calls of the date calculator
\* The frequency vocabulary of ITransaction.recurringConfig.
DescriptorFrequencies ==
  {"daily", "weekly", "biweekly", "monthly", "bimonthly", "quarterly", "semiannually", "annually"}

\* The dates a call starts from: every day of 2024.
RecurDates == MakeDate(2024, 0, 1)..MakeDate(2024, 11, 31)

\* The days of the month a caller names (0: none).
DaysOfMonth == {0, 1, 15, 30, 31}

\* The days of the week a caller names (NoDate: none).
DaysOfWeek == {NoDate} \cup 0..6

\* A call calculateNextOccurrence(fromDate, frequency, interval, dayOfMonth,
\* dayOfWeek) about to run.
NextOccurrenceCall(fromDate, frequency, interval, dayOfMonth, dayOfWeek) ==
  [ pc |-> "called", fromDate |-> fromDate, frequency |-> frequency,
    interval |-> interval, dayOfMonth |-> dayOfMonth, dayOfWeek |-> dayOfWeek,
    result |-> NoDate ]

\* The calls of the runs of SpecRecur; dayOfMonth goes with monthly and
\* dayOfWeek with weekly, as setupRecurringTransaction's callers send them.
NextOccurrenceCalls ==
  { NextOccurrenceCall(d, f, i, dm, dw) :
      d \in RecurDates, f \in HandledFrequencies \cup DescriptorFrequencies,
      i \in 1..MaxInterval, dm \in DaysOfMonth, dw \in DaysOfWeek } \
  { c \in [ pc : {"called"}, fromDate : RecurDates,
            frequency : HandledFrequencies \cup DescriptorFrequencies,
            interval : 1..MaxInterval, dayOfMonth : DaysOfMonth,
            dayOfWeek : DaysOfWeek, result : {NoDate} ] :
      \/ c.dayOfMonth # 0 /\ c.frequency # "monthly"
      \/ c.dayOfWeek # NoDate /\ c.frequency # "weekly" }

InitRecur ==
  /\ accounts = [a \in AccountIds |-> InitialAccount(a)]
  /\ transactions = <<>>
  /\ applyCount = <<>>
  /\ reversed = {}
  /\ last = Resp("none", 0, "none", 0, 0)
  /\ calls = <<>>
  /\ recur \in NextOccurrenceCalls
  /\ payment = NoPayment

\* The call returns the date of one of the cases of the switch.
ReturnNextOccurrence ==
  /\ recur.pc = "called"
  /\ recur.frequency \in HandledFrequencies
  /\ recur' = [recur EXCEPT !.pc = "returned",
                            !.result = calculateNextOccurrence(recur.fromDate, recur.frequency,
                                         recur.interval, recur.dayOfMonth, recur.dayOfWeek)]
  /\ UNCHANGED <<accounts, transactions, applyCount, reversed, last, calls, payment>>

\* default: throw new Error(`Unsupported frequency: ${frequency}`)
ThrowUnsupportedFrequency ==
  /\ recur.pc = "called"
  /\ recur.frequency \notin HandledFrequencies
  /\ recur' = [recur EXCEPT !.pc = "thrown"]
  /\ UNCHANGED <<accounts, transactions, applyCount, reversed, last, calls, payment>>

NextRecur ==
  \/ ReturnNextOccurrence
  \/ ThrowUnsupportedFrequency

SpecRecur == InitRecur /\ [][NextRecur]_vars

\* ------------------------------------------------- getRecurringForecast
\* A stored recurring transaction, as setupRecurringTransaction saves it.
RecurringDoc(u, frequency, interval, endDate, nextDate) ==
  NewTransaction([TransactionData(u, 1, "income", "a1", None, Today)
                    EXCEPT !.isRecurring = TRUE, !.frequency = frequency,
                           !.interval = interval, !.endDate = endDate,
                           !.nextDate = nextDate])

\* The recurring transactions of the runs of SpecForecast: due ones and
\* overdue ones, with and without endDate, one ended before its next date,
\* one with no nextDate (a recurringConfig written by updateTransaction), one
\* cancelled (cancelRecurringTransaction clears isActive) and one of the
\* other user.
ForecastDocs ==
  { RecurringDoc("u1", "weekly", 1, NoDate, Today - 3),
    RecurringDoc("u1", "daily", 2, Today + 10, Today + 1),
    RecurringDoc("u1", "monthly", 1, Today + 40, Today + 1),
    RecurringDoc("u1", "biweekly", 1, Today, Today + 14),
    RecurringDoc("u1", "yearly", 1, NoDate, Today + 1),
    RecurringDoc("u1", "weekly", 1, NoDate, NoDate),
    [RecurringDoc("u1", "weekly", 1, NoDate, Today + 1) EXCEPT !.isActive = FALSE],
    RecurringDoc("u2", "weekly", 1, NoDate, Today + 1) }

\* No forecast request in progress.
ForecastIdle ==
  [ pc |-> "idle", userId |-> None, endDate |-> NoDate, ids |-> <<>>, id |-> 0,
    currentDate |-> NoDate, forecast |-> <<>> ]

InitForecast ==
  /\ accounts = [a \in AccountIds |-> InitialAccount(a)]
  /\ transactions \in [1..NumTemplates -> ForecastDocs]
  /\ applyCount = [i \in 1..NumTemplates |-> 0]
  /\ reversed = {}
  /\ last = Resp("none", 0, "none", 0, 0)
  /\ calls = <<>>
  /\ recur = ForecastIdle
  /\ payment = NoPayment

\* Transaction.find({ userId, isRecurring: true, isActive: true }), in _id order.
RECURSIVE FindRecurring(_, _)
FindRecurring(u, n) ==
  IF n = 0 THEN <<>>
  ELSE LET t == transactions[n] IN
       IF t.userId = u /\ t.isRecurring /\ t.isActive
         THEN Append(FindRecurring(u, n - 1), n)
         ELSE FindRecurring(u, n - 1)

\* The request arrives: forecastMonths = Math.min(Number(months), 12), the
\* horizon endDate, and the find.
StartForecast(u, months, now) ==
  /\ recur.pc = "idle"
  /\ LET forecastMonths == IF months < 12 THEN months ELSE 12 IN
     recur' = [recur EXCEPT !.pc = "for", !.userId = u,
                            !.endDate = setMonth(now, getMonth(now) + forecastMonths),
                            !.ids = FindRecurring(u, Len(transactions))]
  /\ UNCHANGED <<accounts, transactions, applyCount, reversed, last, calls, payment>>

\* for (const recurring of recurringTransactions):
\* currentDate = new Date(recurring.recurringConfig?.nextDate || new Date())
NextRecurring(now) ==
  /\ recur.pc = "for"
  /\ recur.ids # <<>>
  /\ LET id == Head(recur.ids) IN
     recur' = [recur EXCEPT !.pc = "while", !.id = id, !.ids = Tail(@),
                            !.currentDate = IF transactions[id].nextDate # NoDate
                                              THEN transactions[id].nextDate ELSE now]
  /\ UNCHANGED <<accounts, transactions, applyCount, reversed, last, calls, payment>>

\* Mutant: the endDate of the recurring transaction is not looked at.
ForecastEnds_Never(recurring, currentDate) == FALSE

\* if (recurring.recurringConfig?.endDate && currentDate > endDate) break
ForecastEnds(recurring, currentDate) ==
  recurring.endDate # NoDate /\ currentDate > recurring.endDate

\* One pass of the while loop: the item is pushed and the next occurrence
\* computed (calculateNextOccurrence throws for a frequency it does not
\* handle, and the request ends in the catch).
PushForecast ==
  /\ recur.pc = "while"
  /\ recur.currentDate <= recur.endDate
  /\ ~ForecastEnds(transactions[recur.id], recur.currentDate)
  /\ LET recurring == transactions[recur.id]
         item == [id |-> recur.id, expectedDate |-> recur.currentDate]
     IN
     IF recurring.frequency \in HandledFrequencies
       THEN /\ recur' = [recur EXCEPT
                           !.forecast = Append(@, item),
                           !.currentDate =
                              calculateNextOccurrence(recur.currentDate, recurring.frequency,
                                                      IntervalOrOne(recurring.interval), 0, NoDate)]
            /\ UNCHANGED last
       ELSE /\ recur' = [recur EXCEPT !.pc = "failed"]
            /\ last' = Resp("getRecurringForecast", 500, "Unsupported frequency", 0, 0)
  /\ UNCHANGED <<accounts, transactions, applyCount, reversed, calls, payment>>

\* The while loop ends: its condition fails or the break is taken.
ExitWhile ==
  /\ recur.pc = "while"
  /\ \/ recur.currentDate > recur.endDate
     \/ ForecastEnds(transactions[recur.id], recur.currentDate)
  /\ recur' = [recur EXCEPT !.pc = "for"]
  /\ UNCHANGED <<accounts, transactions, applyCount, reversed, last, calls, payment>>

\* The place of the k-th item once the items are sorted by date, items of
\* the same date keeping their order.
SortedPlace(forecast, k) ==
  Cardinality({ j \in 1..Len(forecast) :
                  \/ forecast[j].expectedDate < forecast[k].expectedDate
                  \/ forecast[j].expectedDate = forecast[k].expectedDate /\ j <= k })

\* forecast.sort((a, b) => a.expectedDate.getTime() - b.expectedDate.getTime())
SortByDate(forecast) ==
  LET place == [k \in 1..Len(forecast) |-> SortedPlace(forecast, k)] IN
  [p \in 1..Len(forecast) |-> forecast[CHOOSE k \in 1..Len(forecast) : place[k] = p]]

\* The loop over the recurring transactions is over: the forecast is sorted
\* and sent; the response carries the number of items.
RespondForecast ==
  /\ recur.pc = "for"
  /\ recur.ids = <<>>
  /\ recur' = [recur EXCEPT !.pc = "responded", !.forecast = SortByDate(@)]
  /\ last' = Resp("getRecurringForecast", 200, "ok", 0, Len(recur.forecast))
  /\ UNCHANGED <<accounts, transactions, applyCount, reversed, calls, payment>>

GetRecurringForecast == \E u \in Creators, months \in 1..MaxMonths : StartForecast(u, months, Today)

ForecastNextRecurring == NextRecurring(Today)

NextForecast ==
  \/ GetRecurringForecast
  \/ ForecastNextRecurring
  \/ PushForecast
  \/ ExitWhile
  \/ RespondForecast

\* The request handler runs to its end once the request has arrived: it has
\* no await inside the loops.
SpecForecast == InitForecast /\ [][NextForecast]_vars /\ WF_vars(NextForecast)

\* ------------------------------------- recurring transactions by create
\* A body of createTransaction with isRecurring and a recurringConfig.
RecurringBody(amount, type, accountId, transferTo, frequency, nextDate) ==
  [ amount |-> amount, type |-> type, accountId |-> accountId,
    transferToAccountId |-> transferTo, isRecurring |-> TRUE,
    frequency |-> frequency, interval |-> 1, endDate |-> NoDate,
    nextDate |-> nextDate ]

\* The recurring bodies of the runs of SpecDue: a weekly expense, a
\* quarterly income, a weekly transfer, all due on Today + 1, and a
\* frequency outside the vocabulary.
RecurringBodies ==
  { RecurringBody(-2, "expense", "a1", None, "weekly", Today + 1),
    RecurringBody(1, "income", "a1", None, "quarterly", Today + 1),
    RecurringBody(1, "transfer", "a1", "a2", "weekly", Today + 1),
    RecurringBody(1, "income", "a1", None, "hourly", Today + 1) }

CreateRecurringTransaction ==
  \E u \in Creators, b \in RecurringBodies : createTransaction(u, b, Today)

NextDue ==
  \/ CreateTransaction
  \/ CreateRecurringTransaction
  \/ SetupRecurringTransaction
  \/ ProcessDueRecurringTransactions

SpecDue == Init /\ [][NextDue]_vars

\* ------------------------------------------- cancelRecurringTransaction
\* Transaction.findOneAndUpdate({ _id: id, userId, isRecurring: true },
\* { isActive: false }).
cancelRecurringTransactionResult(db, u, id) ==
  IF ~(FindOwnTransaction(db, u, id) /\ db.transactions[id].isRecurring)
    THEN [db |-> db,
          resp |-> Resp("cancelRecurringTransaction", 404, "Recurring transaction not found", 0, 0)]
    ELSE [db |-> [db EXCEPT !.transactions[id].isActive = FALSE],
          resp |-> Resp("cancelRecurringTransaction", 200, "ok", id, 0)]

cancelRecurringTransaction(u, id) ==
  LET r == cancelRecurringTransactionResult(Db, u, id) IN Commit(r.db, r.resp)

\* updateRecurringTransaction with the body { isActive: true }: there is no
\* recurringConfig in it, so no next date is computed.
resumeRecurringTransactionResult(db, u, id) ==
  IF ~(FindOwnTransaction(db, u, id) /\ db.transactions[id].isRecurring)
    THEN [db |-> db,
          resp |-> Resp("updateRecurringTransaction", 404, "Recurring transaction not found", 0, 0)]
    ELSE [db |-> [db EXCEPT !.transactions[id].isActive = TRUE],
          resp |-> Resp("updateRecurringTransaction", 200, "ok", id, 0)]

resumeRecurringTransaction(u, id) ==
  LET r == resumeRecurringTransactionResult(Db, u, id) IN Commit(r.db, r.resp)

\* The recurring transactions of the runs of SpecCancel, all of u1 and all
\* due on Today + 1, each with an amount of its own: the odd ones daily and
\* ending on Today + 1, the even ones weekly and without an end.
CancelDoc(i) ==
  [RecurringDoc("u1", IF i % 2 = 1 THEN "daily" ELSE "weekly", 1,
                IF i % 2 = 1 THEN Today + 1 ELSE NoDate, Today + 1)
     EXCEPT !.amount = i]

InitCancel ==
  /\ accounts = [a \in AccountIds |-> InitialAccount(a)]
  /\ transactions = [i \in 1..NumTemplates |-> CancelDoc(i)]
  /\ applyCount = [i \in 1..NumTemplates |-> 0]
  /\ reversed = {}
  /\ last = Resp("none", 0, "none", 0, 0)
  /\ calls = <<>>
  /\ recur = ForecastIdle
  /\ payment = NoPayment

\* No forecast request is inside its loops: the handler of
\* getRecurringForecast has no await after its find, so no other request
\* runs between its steps.
NoForecastRunning == recur.pc = "idle"

CancelRecurringTransaction ==
  /\ NoForecastRunning
  /\ \E u \in Users, id \in 1..NumTemplates : cancelRecurringTransaction(u, id)

ResumeRecurringTransaction ==
  /\ NoForecastRunning
  /\ \E u \in Users, id \in 1..NumTemplates : resumeRecurringTransaction(u, id)

\* processDueRecurringTransactions for either process date.
ProcessDue ==
  /\ NoForecastRunning
  /\ \E u \in Creators, d \in ProcessDates :
       LET r == processDueRecurringTransactionsResult(Db, u, d) IN Commit(r.db, r.resp)

\* getRecurringForecast?months=1
ForecastOneMonth == \E u \in Creators : StartForecast(u, 1, Today)

\* The response of the forecast is sent (or its catch has answered 500) and
\* the request is over.
FinishForecast ==
  /\ recur.pc \in {"responded", "failed"}
  /\ recur' = ForecastIdle
  /\ UNCHANGED <<accounts, transactions, applyCount, reversed, last, calls, payment>>

NextCancel ==
  \/ CancelRecurringTransaction
  \/ ResumeRecurringTransaction
  \/ ProcessDue
  \/ ForecastOneMonth
  \/ ForecastNextRecurring
  \/ PushForecast
  \/ ExitWhile
  \/ RespondForecast
  \/ FinishForecast

SpecCancel == InitCancel /\ [][NextCancel]_vars

\* ------------------------------------------ getCreditPaymentCalculation
\* Numbers of the payment scenarios: exact fractions num / den in lowest
\* terms; Infinity is the one value with den = 0.
RECURSIVE GCD(_, _)
GCD(a, b) == IF b = 0 THEN Abs(a) ELSE GCD(b, a % b)

Rat(num, den) ==
  LET g == GCD(Abs(num), Abs(den))
      sign == IF den < 0 THEN -1 ELSE 1
  IN [num |-> sign * (num \div g), den |-> sign * (den \div g)]

Whole(n) == [num |-> n, den |-> 1]

Infinity == [num |-> 1, den |-> 0]

IsFinite(x) == x.den # 0

RECURSIVE Pow(_, _)
Pow(base, n) == IF n = 0 THEN 1 ELSE base * Pow(base, n - 1)

\* Math.min(0, balance), Math.abs
Min(a, b) == IF a < b THEN a ELSE b

\* parseInt(targetPayoffMonths) || 12
DefaultPayoffMonths == 12

\* Math.ceil(-Math.log(1 - debt * rate / payment) / Math.log(1 + rate)) for
\* payment > rate * debt > 0, the rate being a / b: the least n >= 1 with
\* (1 + rate)^n >= payment / (payment - debt * rate).
RECURSIVE PayoffMonthsFrom(_, _, _, _, _)
PayoffMonthsFrom(n, debt, a, b, amount) ==
  IF Pow(b + a, n) * (amount * b - debt * a) >= amount * Pow(b, n + 1)
    THEN n
    ELSE PayoffMonthsFrom(n + 1, debt, a, b, amount)

\* The account document Account.findOne({ _id: id, userId }) gives the
\* request, with the fields the calculation reads; found is FALSE when there
\* is none.  interestRate, minimumPayment and daysUntilPayment are 0 when the
\* document does not have them.
PaymentAccount(found, type, hasCreditFields, balance, rate, minimum, days) ==
  [ found |-> found, type |-> type, hasCreditFields |-> hasCreditFields,
    currentBalance |-> balance, interestRate |-> rate,
    minimumPayment |-> minimum, daysUntilPayment |-> days ]

\* The scenario values before the calculation.
InitialScenarios(account, targetPayoffMonths) ==
  [ minimumPayment    |-> [ amount |-> Whole(account.minimumPayment),
                            monthsToPayoff |-> Whole(0), totalInterest |-> Whole(0) ],
    noInterestPayment |-> [ amount |-> Whole(0),
                            monthsToPayoff |-> Whole(0), totalInterest |-> Whole(0) ],
    customPayoff      |-> [ amount |-> Whole(0),
                            monthsToPayoff |-> Whole(IF targetPayoffMonths # 0
                                                       THEN targetPayoffMonths
                                                       ELSE DefaultPayoffMonths),
                            totalInterest |-> Whole(0) ] ]

\* paymentScenarios.minimumPayment.amount > monthlyInterestRate * currentDebt
MinimumCoversInterest(amount, debt, rate) ==
  amount * rate.den > rate.num * debt

\* Mutant: a payment that does not cover the interest reports no months.
MinimumPaymentScenario_ZeroWhenUncovered(amount, debt, rate) ==
  IF MinimumCoversInterest(amount, debt, rate)
    THEN LET months == PayoffMonthsFrom(1, debt, rate.num, rate.den, amount) IN
         [ amount |-> Whole(amount), monthsToPayoff |-> Whole(months),
           totalInterest |-> Whole(amount * months - debt) ]
    ELSE [ amount |-> Whole(amount), monthsToPayoff |-> Whole(0),
           totalInterest |-> Whole(0) ]

\* The minimum-payment scenario inside the block.
MinimumPaymentScenario(amount, debt, rate) ==
  IF MinimumCoversInterest(amount, debt, rate)
    THEN LET months == PayoffMonthsFrom(1, debt, rate.num, rate.den, amount) IN
         [ amount |-> Whole(amount), monthsToPayoff |-> Whole(months),
           totalInterest |-> Whole(amount * months - debt) ]
    ELSE [ amount |-> Whole(amount), monthsToPayoff |-> Infinity,
           totalInterest |-> Infinity ]

\* The interest-free scenario inside the block: daysUntilDue is
\* account.daysUntilPayment || 30.
NoInterestScenario(debt, daysUntilPayment) ==
  LET daysUntilDue == IF daysUntilPayment # 0 THEN daysUntilPayment ELSE 30 IN
  [ amount |-> Whole(debt),
    monthsToPayoff |-> Whole(IF daysUntilDue <= 30 THEN 1 ELSE (daysUntilDue + 29) \div 30),
    totalInterest |-> Whole(0) ]

\* The custom-period scenario inside the block.
CustomPayoffScenario(debt, rate, customMonths) ==
  LET amount == IF rate.num > 0
                  THEN Rat(debt * rate.num * Pow(rate.den + rate.num, customMonths),
                           rate.den * (Pow(rate.den + rate.num, customMonths)
                                       - Pow(rate.den, customMonths)))
                  ELSE Rat(debt, customMonths)
  IN [ amount |-> amount, monthsToPayoff |-> Whole(customMonths),
       totalInterest |-> Rat(amount.num * customMonths - debt * amount.den, amount.den) ]

\* if (currentDebt > 0 && monthlyInterestRate > 0)
EntersCalculation(currentDebt, rate) == currentDebt > 0 /\ rate.num > 0

\* paymentScenarios of the response for a credit card with credit fields.
PaymentScenarios(account, targetPayoffMonths) ==
  LET currentDebt == Abs(Min(0, account.currentBalance))
      rate == Rat(account.interestRate, 1200)
      initial == InitialScenarios(account, targetPayoffMonths)
  IN
  IF EntersCalculation(currentDebt, rate)
    THEN [ minimumPayment |-> MinimumPaymentScenario(account.minimumPayment, currentDebt, rate),
           noInterestPayment |-> NoInterestScenario(currentDebt, account.daysUntilPayment),
           customPayoff |-> CustomPayoffScenario(currentDebt, rate,
                                                 initial.customPayoff.monthsToPayoff.num) ]
    ELSE initial

\* A request about to be handled.
PaymentRequest(account, targetPayoffMonths) ==
  [ pc |-> "request", account |-> account, targetPayoffMonths |-> targetPayoffMonths,
    scenarios |-> InitialScenarios(account, targetPayoffMonths) ]

\* The requests of the runs of SpecCredit.  targetPayoffMonths is 0 when the
\* query leaves it out; a request about a debt that bears interest names 1
\* or 2 months.
PaymentRequests ==
  LET combos == { c \in [ bal : {-10000, -100, 0, 5}, ir : {0, 24},
                          mp : {0, 2, 50, 150, 200}, days : {0, 20, 45},
                          m : {0, 1, 2, 10} ] :
                    (c.bal < 0 /\ c.ir > 0) => c.m \in {1, 2} }
  IN { PaymentRequest(PaymentAccount(TRUE, "credit_card", TRUE, c.bal, c.ir, c.mp, c.days),
                      c.m) : c \in combos }
     \cup
     { PaymentRequest(PaymentAccount(TRUE, "checking", FALSE, 5, 0, 0, 0), 0),
       PaymentRequest(PaymentAccount(TRUE, "credit_card", FALSE, -100, 0, 0, 0), 0),
       PaymentRequest(PaymentAccount(FALSE, None, FALSE, 0, 0, 0, 0), 0) }

InitCredit ==
  /\ accounts = [a \in AccountIds |-> InitialAccount(a)]
  /\ transactions = <<>>
  /\ applyCount = <<>>
  /\ reversed = {}
  /\ last = Resp("none", 0, "none", 0, 0)
  /\ calls = <<>>
  /\ recur = NoRecur
  /\ payment \in PaymentRequests

\* The request is answered 404 or 400.
RejectPaymentCalculation ==
  /\ payment.pc = "request"
  /\ \/ ~payment.account.found
     \/ payment.account.type # "credit_card"
     \/ ~payment.account.hasCreditFields
  /\ payment' = [payment EXCEPT !.pc = "rejected"]
  /\ last' = IF ~payment.account.found
               THEN Resp("getCreditPaymentCalculation", 404, "Account not found", 0, 0)
             ELSE IF payment.account.type # "credit_card"
               THEN Resp("getCreditPaymentCalculation", 400,
                         "Payment calculation is only available for credit cards", 0, 0)
             ELSE Resp("getCreditPaymentCalculation", 400,
                       "Credit card information is incomplete", 0, 0)
  /\ UNCHANGED <<accounts, transactions, applyCount, reversed, calls, recur>>

\* The request is answered 200 with the payment scenarios.
ReturnPaymentCalculation ==
  /\ payment.pc = "request"
  /\ payment.account.found
  /\ payment.account.type = "credit_card"
  /\ payment.account.hasCreditFields
  /\ payment' = [payment EXCEPT
                   !.pc = "responded",
                   !.scenarios = PaymentScenarios(payment.account, payment.targetPayoffMonths)]
  /\ last' = Resp("getCreditPaymentCalculation", 200, "ok", 0, 0)
  /\ UNCHANGED <<accounts, transactions, applyCount, reversed, calls, recur>>

NextCredit ==
  \/ RejectPaymentCalculation
  \/ ReturnPaymentCalculation

SpecCredit == InitCredit /\ [][NextCredit]_vars

\* ------------------------------------------- direct calls of the methods
\* transaction.applyToAccount() called on a stored transaction by any code
\* that holds the document (the method is part of ITransaction).
applyStoredTransaction(id) ==
  /\ id \in 1..Len(transactions)
  /\ applyCount[id] < MaxApply
  /\ LET r == applyToAccount(Db, id) IN
     Commit(r.db, Resp("applyToAccount", 0, r.err, id, 0))

ApplyStoredTransaction == \E id \in TxIds : applyStoredTransaction(id)

NextApi ==
  \/ Next
  \/ ApplyStoredTransaction

SpecApi == Init /\ [][NextApi]_vars

\* ------------------------------------ applyToAccount calls that interleave
\* Each call applies one saved transaction, as createTransaction and
\* createBulkTransactions do after `await transaction.save()`; the calls
\* belong to different requests, and a call gives way to the others at each
\* await: the two findById and the two updateBalance.

\* The variable of an account document before anything is loaded into it.
NoAccount == NewAccount(None, None, 0, NoCreditFields)

\* The saved transactions the calls apply.
ConcDocs ==
  { NewTransaction(TransactionData("u1", -2, "expense", "a1", None, Today)),
    NewTransaction(TransactionData("u1", 1, "income", "a1", None, Today)),
    NewTransaction(TransactionData("u1", 1, "transfer", "a1", "a2", Today)),
    NewTransaction(TransactionData("u1", -2, "transfer", "a2", "a1", Today)) }

InitConc ==
  /\ accounts = [a \in AccountIds |-> InitialAccount(a)]
  /\ transactions \in [1..NumCalls -> ConcDocs]
  /\ applyCount = [c \in 1..NumCalls |-> 0]
  /\ reversed = {}
  /\ last = Resp("none", 0, "none", 0, 0)
  /\ calls = [c \in 1..NumCalls |->
                [pc |-> "start", account |-> NoAccount, targetAccount |-> NoAccount]]
  /\ recur = NoRecur
  /\ payment = NoPayment

\* const account = await Account.findById(this.accountId)
LoadAccount(c) ==
  /\ calls[c].pc = "start"
  /\ calls' = IF AccountExists(Db, transactions[c].accountId)
                THEN [calls EXCEPT ![c].pc = "loaded",
                                   ![c].account = findById(Db, transactions[c].accountId)]
                ELSE [calls EXCEPT ![c].pc = "thrown"]
  /\ UNCHANGED <<accounts, transactions, applyCount, reversed, last, recur, payment>>

\* await account.updateBalance(...) on the document loaded before
SaveFirst(c) ==
  /\ calls[c].pc = "loaded"
  /\ LET t == transactions[c]
         delta == IF t.type = "transfer" THEN TransferFromDelta(t.amount)
                  ELSE NonTransferDelta(t.amount)
         more == t.type = "transfer" /\ t.transferToAccountId # None
     IN
     /\ accounts' = SaveAccount(Db, t.accountId, updateBalance(calls[c].account, delta)).accounts
     /\ calls' = [calls EXCEPT ![c].pc = IF more THEN "debited" ELSE "done"]
     /\ applyCount' = IF more THEN applyCount ELSE [applyCount EXCEPT ![c] = @ + 1]
  /\ UNCHANGED <<transactions, reversed, last, recur, payment>>

\* const targetAccount = await Account.findById(this.transferToAccountId)
LoadTarget(c) ==
  /\ calls[c].pc = "debited"
  /\ LET found == AccountExists(Db, transactions[c].transferToAccountId) IN
     /\ calls' = IF found
                   THEN [calls EXCEPT ![c].pc = "targetLoaded",
                                      ![c].targetAccount =
                                         findById(Db, transactions[c].transferToAccountId)]
                   ELSE [calls EXCEPT ![c].pc = "done"]
     /\ applyCount' = IF found THEN applyCount ELSE [applyCount EXCEPT ![c] = @ + 1]
  /\ UNCHANGED <<accounts, transactions, reversed, last, recur, payment>>

\* await targetAccount.updateBalance(Math.abs(this.amount))
SaveTarget(c) ==
  /\ calls[c].pc = "targetLoaded"
  /\ LET t == transactions[c] IN
     accounts' = SaveAccount(Db, t.transferToAccountId,
                   updateBalance(calls[c].targetAccount, TransferToDelta(t.amount))).accounts
  /\ calls' = [calls EXCEPT ![c].pc = "done"]
  /\ applyCount' = [applyCount EXCEPT ![c] = @ + 1]
  /\ UNCHANGED <<transactions, reversed, last, recur, payment>>

CallLoadAccount == \E c \in DOMAIN calls : LoadAccount(c)

CallSaveFirst == \E c \in DOMAIN calls : SaveFirst(c)

CallLoadTarget == \E c \in DOMAIN calls : LoadTarget(c)

CallSaveTarget == \E c \in DOMAIN calls : SaveTarget(c)

NextConc ==
  \/ CallLoadAccount
  \/ CallSaveFirst
  \/ CallLoadTarget
  \/ CallSaveTarget

SpecConc == InitConc /\ [][NextConc]_vars

\* ================================================================ claims
\* The effect on account a that the ledger contract gives transaction t.
Effect(t, a) ==
  IF t.type = "transfer"
    THEN (IF a = t.accountId THEN -Abs(t.amount) ELSE 0)
         + (IF a = t.transferToAccountId THEN Abs(t.amount) ELSE 0)
    ELSE (IF a = t.accountId THEN t.amount ELSE 0)

\* The effects on a of the first n transactions that were applied and not reversed.
RECURSIVE SumEffects(_, _)
SumEffects(a, n) ==
  IF n = 0 THEN 0
  ELSE SumEffects(a, n - 1)
       + (IF applyCount[n] > 0 /\ n \notin reversed THEN Effect(transactions[n], a) ELSE 0)

\* The transactions whose applyToAccount returned normally in this step.
AppliedNow ==
  { i \in 1..Len(applyCount') :
      applyCount'[i] > (IF i <= Len(applyCount) THEN applyCount[i] ELSE 0) }

Balance(a) == accounts[a].currentBalance

\* C1: after any sequence of requests, every account's balance minus its
\* initial balance is the sum of the effects of the transactions that were
\* applied and not reversed.
C1_BalanceIsSumOfEffects ==
  \A a \in AccountIds :
    Balance(a) - accounts[a].initialBalance = SumEffects(a, Len(transactions))

\* Two applied transactions, one of them a transfer between two accounts, and
\* a delete request answered last.
C1_Witness ==
  /\ last.op = "deleteTransaction"
  /\ last.tx # 0
  /\ \E i, j \in 1..Len(transactions) :
       /\ i # j
       /\ applyCount[i] > 0
       /\ applyCount[j] > 0
       /\ transactions[i].type = "transfer"
       /\ transactions[i].transferToAccountId \in AccountIds \ {transactions[i].accountId}
       /\ transactions[j].type # "transfer"

\* C2: a step that applies one non-transfer transaction adds its amount to
\* the balance of its account and changes no other balance.
C2_NonTransferApply ==
  [][ \A i \in AppliedNow :
        (AppliedNow = {i} /\ transactions'[i].type # "transfer") =>
          \A a \in AccountIds :
            accounts'[a].currentBalance =
              Balance(a) + (IF a = transactions'[i].accountId
                              THEN transactions'[i].amount ELSE 0) ]_vars

\* A negative non-transfer amount was applied by the last request.
C2_Witness ==
  /\ last.op = "createTransaction"
  /\ last.code = 201
  /\ transactions[last.tx].type # "transfer"
  /\ transactions[last.tx].amount < 0
  /\ applyCount[last.tx] = 1

\* C3: a step that applies one transfer between two different existing
\* accounts takes |amount| from the first and adds it to the second, whatever
\* the sign of the stored amount, and changes no other balance; the sum of
\* the two balances stays.
C3_TransferApply ==
  [][ \A i \in AppliedNow :
        LET t == transactions'[i]
            m == Abs(t.amount)
        IN
        ( /\ AppliedNow = {i}
          /\ t.type = "transfer"
          /\ t.transferToAccountId \in AccountIds
          /\ t.transferToAccountId # t.accountId ) =>
          /\ accounts'[t.accountId].currentBalance = Balance(t.accountId) - m
          /\ accounts'[t.transferToAccountId].currentBalance
               = Balance(t.transferToAccountId) + m
          /\ accounts'[t.accountId].currentBalance
               + accounts'[t.transferToAccountId].currentBalance
               = Balance(t.accountId) + Balance(t.transferToAccountId)
          /\ \A a \in AccountIds \ {t.accountId, t.transferToAccountId} :
               accounts'[a].currentBalance = Balance(a) ]_vars

\* A transfer stored with a negative amount was applied by the last request.
C3_Witness ==
  /\ last.op = "createTransaction"
  /\ last.code = 201
  /\ transactions[last.tx].type = "transfer"
  /\ transactions[last.tx].amount < 0
  /\ transactions[last.tx].transferToAccountId # transactions[last.tx].accountId
  /\ applyCount[last.tx] = 1

\* The delete request answered in this step found the transaction it names.
DeletedNow(id) ==
  /\ last'.op = "deleteTransaction"
  /\ last'.tx = id
  /\ id \in 1..Len(transactions)

\* C4: deleting (reversing) an applied, not cancelled non-transfer transaction
\* succeeds, adds a transaction with the negated amount on the same account,
\* takes the amount back from the balance and leaves the original cancelled.
C4_ReverseRestores ==
  [][ \A id \in TxIds :
        ( /\ DeletedNow(id)
          /\ applyCount[id] > 0
          /\ transactions[id].type # "transfer"
          /\ transactions[id].status # "cancelled" ) =>
          /\ last'.code = 200
          /\ Len(transactions') = Len(transactions) + 1
          /\ transactions'[Len(transactions')].amount = -transactions[id].amount
          /\ transactions'[Len(transactions')].accountId = transactions[id].accountId
          /\ transactions'[id].status = "cancelled"
          /\ accounts'[transactions[id].accountId].currentBalance
               = Balance(transactions[id].accountId) - transactions[id].amount ]_vars

\* C5: deleting (reversing) an applied transfer between two different
\* existing accounts gives |amount| back to the first and takes it from the
\* second.
C5_ReverseTransfer ==
  [][ \A id \in TxIds :
        ( /\ DeletedNow(id)
          /\ applyCount[id] > 0
          /\ transactions[id].type = "transfer"
          /\ transactions[id].status # "cancelled"
          /\ transactions[id].transferToAccountId
               \in AccountIds \ {transactions[id].accountId} ) =>
          /\ accounts'[transactions[id].accountId].currentBalance
               = Balance(transactions[id].accountId) + Abs(transactions[id].amount)
          /\ accounts'[transactions[id].transferToAccountId].currentBalance
               = Balance(transactions[id].transferToAccountId)
                   - Abs(transactions[id].amount) ]_vars

\* A stored transaction names an account that does not exist.
MissingReference(t) ==
  \/ t.accountId \notin AccountIds
  \/ t.type = "transfer" /\ t.transferToAccountId \notin AccountIds

\* C8: a transaction whose account, or whose transfer target, does not exist
\* is never applied: applyToAccount does not return normally for it and the
\* step changes no balance.
C8_MissingAccountRejected ==
  [][ \A i \in 1..Len(transactions') :
        (i > Len(transactions) /\ MissingReference(transactions'[i])) =>
          /\ applyCount'[i] = 0
          /\ (Len(transactions') = Len(transactions) + 1 =>
                \A a \in AccountIds : accounts'[a].currentBalance = Balance(a)) ]_vars

\* C9: deleting (reversing) a transaction that is already cancelled fails
\* with AlreadyCancelled, adds no transaction and changes no balance.
C9_AlreadyCancelled ==
  [][ \A id \in TxIds :
        (DeletedNow(id) /\ transactions[id].status = "cancelled") =>
          /\ last'.msg = "AlreadyCancelled"
          /\ UNCHANGED <<accounts, transactions>> ]_vars

\* Every call in progress has returned.
AllDone == calls # <<>> /\ \A c \in DOMAIN calls : calls[c].pc = "done"

\* C6: when applyToAccount calls that run at the same time have all
\* returned, every balance is the starting balance plus the effects of all
\* of them: no update is lost.
C6_NoLostUpdate ==
  AllDone =>
    \A a \in AccountIds :
      Balance(a) = accounts[a].initialBalance + SumEffects(a, Len(transactions))

\* The transfer call c has debited its first account and not yet credited
\* the second.
BetweenLegs(c) ==
  /\ calls[c].pc \in {"debited", "targetLoaded"}
  /\ transactions[c].type = "transfer"

\* The account the next step of call d reads or writes.
StepAccount(d) ==
  IF calls[d].pc \in {"start", "loaded"} THEN transactions[d].accountId
  ELSE transactions[d].transferToAccountId

\* C7: between the debit and the credit of a transfer no other call reads or
\* writes either of its two accounts.
C7_TransferExclusive ==
  [][ \A c, d \in DOMAIN calls :
        (c # d /\ BetweenLegs(c) /\ calls'[d].pc # calls[d].pc) =>
          StepAccount(d) \notin
            {transactions[c].accountId, transactions[c].transferToAccountId} ]_vars

\* C10: applying a transaction that was already applied is rejected with
\* AlreadyApplied and changes no balance, so that no transaction is applied
\* twice.
C10_AlreadyApplied ==
  [][ \A id \in TxIds :
        ( /\ last'.op = "applyToAccount"
          /\ last'.tx = id
          /\ id \in 1..Len(transactions)
          /\ applyCount[id] > 0 ) =>
          /\ last'.msg = "AlreadyApplied"
          /\ applyCount'[id] = applyCount[id]
          /\ UNCHANGED accounts ]_vars

\* Account kinds that are credit products.
IsCreditKind(type) == type \in {"credit_card", "auto_loan", "personal_loan", "mortgage"}

\* C11: in every reachable state every account of a non-credit kind
\* (checking, savings, cash, investment) has currentBalance >= 0.
C11_NonCreditNeverNegative ==
  \A a \in DOMAIN accounts :
    ~IsCreditKind(accounts[a].type) => accounts[a].currentBalance >= 0

\* The accounts whose currentBalance this step changes.
BalanceChanged ==
  { a \in DOMAIN accounts : accounts'[a].currentBalance # accounts[a].currentBalance }

\* C12: a step changes an account's currentBalance only when a transaction is
\* applied (or reversed) in the step and has that account as its primary or
\* counterparty account.
C12_BalanceOnlyByLedger ==
  [][ \A a \in BalanceChanged :
        \E i \in AppliedNow :
          a \in {transactions'[i].accountId, transactions'[i].transferToAccountId} ]_vars

\* C13: once a transaction has been applied, no step changes its amount, its
\* type or its primary or counterparty account.
C13_AppliedImmutable ==
  [][ \A i \in 1..Len(transactions) :
        applyCount[i] > 0 =>
          /\ transactions'[i].amount = transactions[i].amount
          /\ transactions'[i].type = transactions[i].type
          /\ transactions'[i].accountId = transactions[i].accountId
          /\ transactions'[i].transferToAccountId = transactions[i].transferToAccountId ]_vars

\* C14: in every reachable state every credit account that has credit terms
\* carries availableCredit = creditLimit + currentBalance.
C14_AvailableCredit ==
  \A a \in DOMAIN accounts :
    (IsCreditKind(accounts[a].type) /\ accounts[a].creditFields.present) =>
      /\ accounts[a].creditFields.hasAvailableCredit
      /\ accounts[a].creditFields.availableCredit
           = accounts[a].creditFields.creditLimit + accounts[a].currentBalance

\* C15: every stored transfer has a counterparty account, different from its
\* primary account.
C15_TransferHasDistinctCounterparty ==
  \A i \in 1..Len(transactions) :
    transactions[i].type = "transfer" =>
      /\ transactions[i].transferToAccountId # None
      /\ transactions[i].transferToAccountId # transactions[i].accountId

\* C16: for every frequency the calculator supports, every interval >= 1 and
\* every date `from`, with or without dayOfMonth / dayOfWeek, the date
\* returned is strictly later than `from`.
C16_StrictlyLater ==
  recur.pc = "returned" => recur.result > recur.fromDate

\* A weekly call with a dayOfWeek and a monthly call with a dayOfMonth from
\* the last day of a month have returned.
C16_Witness ==
  /\ recur.pc = "returned"
  /\ \/ recur.frequency = "weekly" /\ recur.dayOfWeek = getDay(recur.fromDate)
     \/ recur.frequency = "monthly" /\ recur.dayOfMonth = 1
          /\ recur.fromDate = MakeDate(2024, 0, 31)

\* The month count of a date: 12 * year + month.
MonthIndex(n) == 12 * getFullYear(n) + getMonth(n)

\* C17: a monthly result lies in the calendar month `interval` months after
\* the month of `from`, and with a dayOfMonth its day is the smaller of
\* dayOfMonth and the number of days of that month.
C17_MonthlyClamped ==
  (recur.pc = "returned" /\ recur.frequency = "monthly") =>
    /\ MonthIndex(recur.result) = MonthIndex(recur.fromDate) + recur.interval
    /\ recur.dayOfMonth # 0 =>
         LET days == DaysInMonth(getFullYear(recur.result), getMonth(recur.result)) IN
         getDate(recur.result) = IF recur.dayOfMonth < days THEN recur.dayOfMonth ELSE days

\* C18: no frequency of the descriptor vocabulary fails with
\* UnsupportedFrequency.
C18_VocabularyAccepted ==
  recur.frequency \in DescriptorFrequencies => recur.pc # "thrown"

\* The dates the forecast sent holds for the recurring transaction i, in order.
ForecastDates(i) ==
  LET OfRecurring(item) == item.id = i
      items == SelectSeq(recur.forecast, OfRecurring)
  IN [k \in 1..Len(items) |-> items[k].expectedDate]

\* What C19 asks of the forecast sent for the recurring transaction i.
ForecastOk(i) ==
  LET t == transactions[i]
      dates == ForecastDates(i)
  IN
  /\ (dates # <<>> /\ t.nextDate # NoDate) => dates[1] = t.nextDate
  /\ \A k \in 1..Len(dates) :
       /\ dates[k] <= recur.endDate
       /\ t.endDate # NoDate => dates[k] <= t.endDate
  /\ \A k \in 1..(Len(dates) - 1) :
       /\ dates[k] < dates[k + 1]
       /\ dates[k + 1] = calculateNextOccurrence(dates[k], t.frequency,
                                                 IntervalOrOne(t.interval), 0, NoDate)

\* C19: every forecast request ends with a response; for each active
\* recurring transaction the dates sent are strictly increasing, start at its
\* nextDate, each later one is the next occurrence of the one before, none is
\* after the horizon or after its endDate; and the stored transactions are
\* left as they were.
C19_Forecast ==
  /\ [](recur.pc = "responded" => \A i \in 1..Len(transactions) : ForecastOk(i))
  /\ <>(recur.pc = "responded")
  /\ [][transactions' = transactions]_vars

\* A forecast was sent that holds several dates of a recurring transaction
\* without endDate and the dates of one that stops at its endDate.
C19_Witness ==
  /\ recur.pc = "responded"
  /\ \E i, j \in 1..Len(transactions) :
       /\ transactions[i].endDate = NoDate /\ Len(ForecastDates(i)) > 2
       /\ transactions[j].endDate # NoDate /\ Len(ForecastDates(j)) > 1
            /\ transactions[j].endDate < recur.endDate

\* The recurring transactions that fire in this step: processDueRecurringTransactions
\* generated a transaction from them and recomputed their nextDate.
FiredNow ==
  { i \in 1..Len(transactions) :
      /\ last'.op = "processDueRecurringTransactions"
      /\ transactions[i].isRecurring
      /\ transactions'[i].nextDate # transactions[i].nextDate }

\* C20: when a recurring transaction with an endDate fires, the transactions
\* generated in the step are not dated after its endDate, and it becomes
\* inactive when its recomputed nextDate exceeds the endDate.
C20_NoOccurrenceAfterEndDate ==
  [][ \A i \in FiredNow :
        transactions[i].endDate # NoDate =>
          /\ \A n \in (Len(transactions) + 1)..Len(transactions') :
               transactions'[n].transactionDate <= transactions[i].endDate
          /\ transactions'[i].nextDate > transactions[i].endDate
               => ~transactions'[i].isActive ]_vars

\* ------------------------------------------------- payment scenarios
\* The debt of the account of the request: |min(0, currentBalance)|.
RequestDebt == IF payment.account.currentBalance < 0
                 THEN 0 - payment.account.currentBalance ELSE 0

\* The request was answered with payment scenarios.
Calculated == payment.pc = "responded"

\* The months of the custom-period plan: the requested ones, 12 without them.
RequestMonths == IF payment.targetPayoffMonths # 0
                   THEN payment.targetPayoffMonths ELSE 12

\* C21: for a debt above zero the minimum-payment plan reports the
\* perpetual-debt result (infinite months and infinite interest) exactly when
\* the minimum payment is at most the monthly rate times the debt, and
\* finite values otherwise.
C21_PerpetualDebtRule ==
  (Calculated /\ RequestDebt > 0) =>
    LET plan == payment.scenarios.minimumPayment
        uncovered == payment.account.minimumPayment * 1200
                       <= payment.account.interestRate * RequestDebt
    IN IF uncovered
         THEN plan.monthsToPayoff = Infinity /\ plan.totalInterest = Infinity
         ELSE IsFinite(plan.monthsToPayoff) /\ IsFinite(plan.totalInterest)

\* The sample of the spec: a debt of 10000 at 2% a month (24% a year) with a
\* minimum payment of 150.
SampleRequest ==
  /\ payment.account.found
  /\ payment.account.currentBalance = -10000
  /\ payment.account.interestRate = 24
  /\ payment.account.minimumPayment = 150

C23_NoDebtAllZero ==
  (Calculated /\ RequestDebt = 0) =>
    \A name \in {"minimumPayment", "noInterestPayment", "customPayoff"} :
      /\ payment.scenarios[name].amount = Whole(0)
      /\ payment.scenarios[name].monthsToPayoff = Whole(0)
      /\ payment.scenarios[name].totalInterest = Whole(0)

\* C24: with a debt above zero, a rate of zero and at least one month, the
\* custom-period plan reports the debt divided by the months and no interest.
C24_ZeroRateCustomPlan ==
  (Calculated /\ RequestDebt > 0 /\ payment.account.interestRate = 0
     /\ RequestMonths >= 1) =>
    /\ payment.scenarios.customPayoff.amount = Rat(RequestDebt, RequestMonths)
    /\ payment.scenarios.customPayoff.totalInterest = Whole(0)

\* C25: with a debt above zero and any number of days until the due date,
\* whatever the rate, the interest-free plan reports the debt as the amount,
\* no interest and max(1, ceil(days / 30)) months.
C25_InterestFreePlan ==
  (Calculated /\ RequestDebt > 0 /\ payment.account.daysUntilPayment > 0) =>
    LET days == payment.account.daysUntilPayment
        ceil == (days + 29) \div 30
    IN /\ payment.scenarios.noInterestPayment.amount = Whole(RequestDebt)
       /\ payment.scenarios.noInterestPayment.totalInterest = Whole(0)
       /\ payment.scenarios.noInterestPayment.monthsToPayoff
            = Whole(IF ceil > 1 THEN ceil ELSE 1)

\* ------------------------------------------------- ownership and atomicity
\* C26: a request of one user never changes the balance of an account of
\* another user: every account whose balance a step changes belongs to the
\* user of a transaction that step applied.
C26_OwnAccountsOnly ==
  [][ \A a \in BalanceChanged :
        \E i \in AppliedNow :
          /\ a \in {transactions'[i].accountId, transactions'[i].transferToAccountId}
          /\ transactions'[i].userId = AccountOwner(a) ]_vars

\* The stored transaction id is valid, applied and not cancelled.
Reversible(id) ==
  /\ ValidateRequired(transactions[id])
  /\ applyCount[id] > 0
  /\ transactions[id].status # "cancelled"

\* C27: every stored transaction has the required fields, its owner among
\* them, and the reversal of a valid, applied, non-cancelled transaction
\* carries the owner of the original, so the request that reverses it is
\* never rejected by the validation of the required fields.
C27_ReversalHasOwner ==
  /\ [](\A i \in 1..Len(transactions) : ValidateRequired(transactions[i]))
  /\ [][ \A id \in TxIds :
           (DeletedNow(id) /\ Reversible(id)) =>
             /\ last'.msg # "Transaction validation failed"
             /\ Len(transactions') = Len(transactions) + 1
             /\ transactions'[Len(transactions')].userId = transactions[id].userId ]_vars

\* The recurring transactions of u that processDueRecurringTransactions
\* finds for the date d: active, with a next date not after d.
DueTemplates(u, d) ==
  { i \in 1..Len(transactions) :
      /\ transactions[i].userId = u
      /\ transactions[i].isRecurring
      /\ transactions[i].isActive
      /\ transactions[i].nextDate # NoDate
      /\ transactions[i].nextDate <= d }

\* The database after the step.
DbAfter == [ accounts |-> accounts', transactions |-> transactions',
             applyCount |-> applyCount', reversed |-> reversed' ]

\* C28: processDueRecurringTransactions with the date d generates and
\* applies exactly one transaction for each active recurring transaction of
\* the user that is due on d and sets its next date after d; the same
\* request sent again generates nothing and changes no balance.
C28_ProcessOncePerDate ==
  [][ \A d \in ProcessDates :
        processDueRecurringTransactions("u1", d) =>
          /\ Len(transactions') = Len(transactions) + Cardinality(DueTemplates("u1", d))
          /\ \A n \in (Len(transactions) + 1)..Len(transactions') : applyCount'[n] = 1
          /\ \A i \in DueTemplates("u1", d) : transactions'[i].nextDate > d
          /\ processDueRecurringTransactionsResult(DbAfter, "u1", d).db = DbAfter ]_vars

\* The requests that create transactions to apply.
CreationOps == {"createTransaction", "createBulkTransactions",
                "processDueRecurringTransactions"}

\* C29: on every creation path a transaction is either stored and applied to
\* its account or neither: no step of a creating request leaves a stored
\* transaction that was not applied.
C29_StoredIffApplied ==
  [][ last'.op \in CreationOps =>
        \A n \in (Len(transactions) + 1)..Len(transactions') : applyCount'[n] > 0 ]_vars

\* ------------------------------------------------- cancelled recurrences
\* The recurring transactions that are not active before the step.
Inactive ==
  { i \in 1..Len(transactions) : transactions[i].isRecurring /\ ~transactions[i].isActive }

\* C30: while a recurring transaction is inactive (cancelled, or ended by its
\* endDate) no process request generates a transaction from it or touches
\* it, and no forecast finds or lists it; it counts again only once it is
\* set active.
C30_InactiveStaysSilent ==
  [][ /\ last'.op = "processDueRecurringTransactions" =>
           /\ \A i \in Inactive : transactions'[i] = transactions[i]
           /\ \A n \in (Len(transactions) + 1)..Len(transactions') :
                \E i \in 1..Len(transactions) \ Inactive :
                  /\ transactions[i].isRecurring
                  /\ transactions'[n].amount = transactions[i].amount
      /\ (recur.pc = "idle" /\ recur'.pc = "for") =>
           \A k \in 1..Len(recur'.ids) : recur'.ids[k] \notin Inactive
      /\ (recur.pc = "for" /\ recur'.pc = "responded") =>
           \A k \in 1..Len(recur'.forecast) : recur'.forecast[k].id \notin Inactive ]_vars

\* A recurring transaction that is not active is still due on every process
\* date, a process request has generated from another one, and a forecast
\* has just been answered.
C30_Witness ==
  /\ \E i \in 1..NumTemplates :
       /\ ~transactions[i].isActive
       /\ transactions[i].nextDate <= Today + 1
  /\ Len(transactions) > NumTemplates
  /\ recur.pc = "responded"
  /\ last.op = "getRecurringForecast"

====
